---- MODULE Spec2Model ----
(***************************************************************************)
(* Request metrics aggregator of services/orders:                          *)
(*   features/metrics_service.py  MetricsService, track_metrics           *)
(*   app.py                       the view functions, the /metrics handler *)
(*                                                                         *)
(* Strings are sequences of one-character strings, so that building a key  *)
(* (f"{method}:{endpoint}") and splitting it again (split(':', 1)) are     *)
(* computed, not assumed.  Durations are whole seconds: binary64 adds and  *)
(* compares such values exactly, so total_time is an integer here.         *)
(* A float quotient a / b is represented by the reduced fraction <<n, d>>. *)
(* A value rounded to two decimals is represented in hundredths.           *)
(***************************************************************************)
EXTENDS Integers, Sequences, FiniteSets, TLC

VARIABLES
    metrics,   \* self.metrics: entries in insertion order (a dict keeps it)
    lock,      \* self.lock: the thread inside a `with self.lock` block, or NoThread
    clock,     \* datetime.now(), as a logical time; start_time is 0
    pc,        \* per thread: position in the operation it is running
    arg,       \* per thread: the arguments of the running call
    tmp,       \* per thread: the value loaded by the read half of a `+=`, the
               \* result a reader has built, the outcome of a wrapped function
    ret,       \* per thread: the outcome handed to the caller, None before
    issued,    \* history: per thread, the track_request calls it has made
    hist,      \* history: per key, the calls made, those with a status >= 400
               \* and the sum of their durations
    log,       \* history: the durations recorded by a single caller, in order
               \* (SpecWindow); the track_request calls made for the request
               \* being served (SpecApp)
    first,     \* history: the (method, endpoint) pairs given to track_request,
               \* each once, in the order in which they first reached the store
    scenario   \* what the callers of SpecRace and SpecWindow were set up to do

vars == <<metrics, lock, clock, pc, arg, tmp, ret, issued, hist, log, first, scenario>>

----------------------------------------------------------------------------
(* Bounds of the model *)

NumThreads == 2
MaxCalls == 3
CallsPerThread == 2
SeqCalls == 4
MaxRequests == 21
WindowCalls == 150
AppCalls == 4
FewCalls == 2
PairCalls == 3
WrapCalls == 3
ScanCalls == 3
LiveCalls == 1

Threads == 1..NumThreads
NoThread == 0

None == <<>>
Some(x) == <<x>>

GET == <<"G", "E", "T">>
POST == <<"P", "O", "S", "T">>
Methods == {GET, POST}
Endpoints == {<<"/", "h">>}
Statuses == {200, 500}
BoundaryStatuses == {399, 400}
Durs == {1}
RaceDurs == {2, 3}
Patterns == {"up", "down", "saw", "pulse"}

----------------------------------------------------------------------------
(* The store: pure helpers *)

\* deque(maxlen=100)
WindowCap == 100

MakeKeyEndpointFirst(method, endpoint) == endpoint \o <<":">> \o method

MakeKeyDash(method, endpoint) == method \o <<"-">> \o endpoint

\* key = f"{method}:{endpoint}"
MakeKey(method, endpoint) == method \o <<":">> \o endpoint

Keys == {MakeKey(m, e) : m \in Methods, e \in Endpoints}

\* the defaultdict factory
DefaultEntry(key) ==
    [key |-> key, count |-> 0, total_time |-> 0, errors |-> 0,
     last_access |-> None, response_times |-> <<>>]

KeySet(m) == {m[i].key : i \in DOMAIN m}

HasKey(m, key) == key \in KeySet(m)

IndexOf(m, key) == CHOOSE i \in DOMAIN m : m[i].key = key

WithKeyInFront(m, key) == IF HasKey(m, key) THEN m ELSE <<DefaultEntry(key)>> \o m

WithKeyFresh(m, key) ==
    IF HasKey(m, key) THEN [m EXCEPT ![IndexOf(m, key)] = DefaultEntry(key)]
    ELSE Append(m, DefaultEntry(key))

\* self.metrics[key] on a defaultdict: a missing key is inserted (last)
WithKey(m, key) == IF HasKey(m, key) THEN m ELSE Append(m, DefaultEntry(key))

DequeAppendDropNewest(w, x) ==
    IF Len(w) >= WindowCap THEN SubSeq(w, 1, Len(w) - 1) \o <<x>> ELSE Append(w, x)

\* deque.append on a deque with maxlen: a full deque drops its leftmost item
DequeAppend(w, x) == IF Len(w) >= WindowCap THEN Tail(w) \o <<x>> ELSE Append(w, x)

IsErrorAbove400(status_code) == status_code > 400

\* status_code >= 400
IsError(status_code) == status_code >= 400

----------------------------------------------------------------------------
(* Outcomes of a call *)

Return(v) == [kind |-> "return", val |-> v]
Raise(e) == [kind |-> "raise", val |-> e]

----------------------------------------------------------------------------
(* Arithmetic of the derived statistics *)

RECURSIVE Gcd(_, _)
Gcd(a, b) == IF b = 0 THEN a ELSE Gcd(b, a % b)

\* the float a / b for integers a >= 0, b > 0: determined by the fraction
Ratio(a, b) == LET g == Gcd(a, b) IN <<a \div g, b \div g>>

\* the int 0 of the `else 0` guards (it prints as 0, a float zero as 0.0)
IntZero == <<0>>

\* round(n / d, 0) for integers n >= 0, d > 0: Python rounds a tie to even
RoundHalfEven(n, d) ==
    LET q == n \div d
        r == n % d
    IN  IF 2 * r > d \/ (2 * r = d /\ q % 2 = 1) THEN q + 1 ELSE q

\* round((total_time / count) * 1000, 2), in hundredths of a millisecond
RoundMs(total, count) == RoundHalfEven(100000 * total, count)

AvgOverWindowLength(metric) ==
    IF metric.count > 0 THEN RoundMs(metric.total_time, Len(metric.response_times))
    ELSE 0

\* total_time / count if count > 0 else 0, then round(avg * 1000, 2)
AvgResponseTimeMs(metric) ==
    IF metric.count > 0 THEN RoundMs(metric.total_time, metric.count) ELSE 0

\* the place sorted() gives to item i of w: ascending, equal items in their order
SortedPlace(w, i) ==
    Cardinality({j \in 1..Len(w) : w[j] < w[i] \/ (w[j] = w[i] /\ j <= i)})

\* sorted(w)
Sorted(w) ==
    [k \in 1..Len(w) |-> w[CHOOSE i \in 1..Len(w) : SortedPlace(w, i) = k]]

P95IndexOfLast(n) == IF n = 0 THEN 0 ELSE (19 * (n - 1)) \div 20

\* int(len(recent_times) * 0.95); the float product truncates to floor(19 n / 20)
\* for every n a deque of maxlen 100 can have
P95Index(n) == (19 * n) \div 20

\* sorted(recent_times)[int(len(recent_times) * 0.95)] if recent_times else 0
\* (Python indexes from 0), then round(p95 * 1000, 2) in hundredths of a ms
P95ResponseTimeMs(metric) ==
    LET recent_times == metric.response_times
    IN  IF recent_times /= <<>>
        THEN RoundMs(Sorted(recent_times)[P95Index(Len(recent_times)) + 1], 1)
        ELSE 0

\* the per-key view built by the loop of get_endpoint_metrics
DerivedView(metric) ==
    [total_requests |-> metric.count,
     total_errors |-> metric.errors,
     error_rate |-> IF metric.count > 0 THEN Ratio(metric.errors, metric.count)
                    ELSE IntZero,
     avg_response_time_ms |-> AvgResponseTimeMs(metric),
     p95_response_time_ms |-> P95ResponseTimeMs(metric),
     last_access |-> metric.last_access]

\* dict(entry): the raw fields of an entry
RawEntry(metric) ==
    [count |-> metric.count, total_time |-> metric.total_time,
     errors |-> metric.errors, last_access |-> metric.last_access,
     response_times |-> metric.response_times]

\* an empty dict
EmptyDict == <<>>

AfterGetItem(m, endpoint) == IF endpoint /= <<>> THEN WithKey(m, endpoint) ELSE m

\* the store after get_endpoint_metrics(endpoint): self.metrics.get(endpoint, {})
\* never calls the default factory and .items() only reads, so the store is as
\* it was (self.metrics[endpoint] would have inserted a missing key)
AfterGet(m, endpoint) == m

\* the body of get_endpoint_metrics, run with the lock held.  `if endpoint:`
\* takes None and the empty string alike for "no filter".
EndpointMetrics(m, endpoint) ==
    IF endpoint /= <<>>
    THEN IF HasKey(m, endpoint) THEN RawEntry(m[IndexOf(m, endpoint)]) ELSE EmptyDict
    ELSE [key \in KeySet(m) |-> DerivedView(m[IndexOf(m, key)])]

RECURSIVE SumCount(_)
SumCount(m) == IF m = <<>> THEN 0 ELSE m[1].count + SumCount(Tail(m))

SumErrorsOfFirstKey(m) == IF m = <<>> THEN 0 ELSE m[1].errors

RECURSIVE SumErrors(_)
SumErrors(m) == IF m = <<>> THEN 0 ELSE m[1].errors + SumErrors(Tail(m))

BelowOrAtThreshold(total_errors, total_requests) ==
    20 * total_errors <= total_requests

\* total_errors / total_requests < 0.05 for integers, total_requests > 0
BelowThreshold(total_errors, total_requests) == 20 * total_errors < total_requests

ServiceStatusLatched(total_errors, total_requests) ==
    IF total_requests = 0 THEN Raise("ZeroDivisionError")
    ELSE IF total_errors = 0 THEN Return("healthy")
    ELSE Return("degraded")

\* 'healthy' if total_errors / total_requests < 0.05 else 'degraded'
\* if total_requests > 0 else 'unknown': the division is evaluated first
ServiceStatus(total_errors, total_requests) ==
    IF total_requests = 0 THEN Raise("ZeroDivisionError")
    ELSE IF BelowThreshold(total_errors, total_requests) THEN Return("healthy")
    ELSE IF total_requests > 0 THEN Return("degraded")
    ELSE Return("unknown")

\* the body of get_health_metrics, run with the lock held
HealthMetrics(m, now) ==
    LET total_requests == SumCount(m)
        total_errors == SumErrors(m)
        status == ServiceStatus(total_errors, total_requests)
    IN  IF status.kind = "raise" THEN status
        ELSE Return(
            [uptime_seconds |-> now,
             uptime_human |-> now,
             total_requests |-> total_requests,
             total_errors |-> total_errors,
             overall_error_rate |-> IF total_requests > 0
                                    THEN Ratio(total_errors, total_requests)
                                    ELSE IntZero,
             endpoints_count |-> Len(m),
             service_status |-> status.val])

\* endpoint.split(':', 1): cut at the first colon, if there is one
Split1(s) ==
    LET colons == {i \in 1..Len(s) : s[i] = ":"}
    IN  IF colons = {} THEN <<s>>
        ELSE LET i == CHOOSE c \in colons : \A d \in colons : c <= d
             IN  <<SubSeq(s, 1, i - 1), SubSeq(s, i + 1, Len(s))>>

HelpLine(name, text) == <<"# HELP", name, text>>
TypeLine(name, type) == <<"# TYPE", name, type>>
ValueLine(name, labels, value) == <<name, labels, value>>

\* the three lines written before the lock is taken
UptimeLines(now) ==
    <<HelpLine("service_uptime_seconds", "Service uptime in seconds"),
      TypeLine("service_uptime_seconds", "counter"),
      ValueLine("service_uptime_seconds", None, now)>>

AvgTimeMillis(metric) ==
    IF metric.count > 0 THEN Ratio(1000 * metric.total_time, metric.count)
    ELSE IntZero

\* avg_time = metric['total_time'] / metric['count'] if metric['count'] > 0 else 0
AvgTime(metric) ==
    IF metric.count > 0 THEN Ratio(metric.total_time, metric.count) ELSE IntZero

\* the nine lines of one key
KeyLines(metric) ==
    LET parts == Split1(metric.key)
        labels == <<parts[1], parts[2]>>
        avg_time == AvgTime(metric)
    IN  <<HelpLine("http_requests_total", "Total number of HTTP requests"),
          TypeLine("http_requests_total", "counter"),
          ValueLine("http_requests_total", labels, metric.count),
          HelpLine("http_errors_total", "Total number of HTTP errors"),
          TypeLine("http_errors_total", "counter"),
          ValueLine("http_errors_total", labels, metric.errors),
          HelpLine("http_request_duration_seconds", "Average request duration"),
          TypeLine("http_request_duration_seconds", "gauge"),
          ValueLine("http_request_duration_seconds", labels, avg_time)>>

RECURSIVE AllKeyLines(_)
AllKeyLines(m) == IF m = <<>> THEN <<>> ELSE KeyLines(m[1]) \o AllKeyLines(Tail(m))

\* the locked loop of get_prometheus_metrics and the join: `method, path = ...`
\* raises ValueError on a key without a colon
PrometheusText(lines, m) ==
    IF \E i \in DOMAIN m : Len(Split1(m[i].key)) /= 2
    THEN Raise("ValueError")
    ELSE Return(lines \o AllKeyLines(m))

----------------------------------------------------------------------------
(* The /metrics handler of app.py *)

ContentType == "text/plain; charset=utf-8"
FallbackText == <<<<"# Error generating metrics\n">>>>

PrometheusResponseAlways200(outcome) ==
    IF outcome.kind = "return"
    THEN [body |-> outcome.val, status |-> 200, content_type |-> ContentType]
    ELSE [body |-> FallbackText, status |-> 200, content_type |-> ContentType]

\* try: return result, 200, {...}  except Exception: return fallback, 500, {...}
PrometheusResponse(outcome) ==
    IF outcome.kind = "return"
    THEN [body |-> outcome.val, status |-> 200, content_type |-> ContentType]
    ELSE [body |-> FallbackText, status |-> 500, content_type |-> ContentType]

----------------------------------------------------------------------------
(* Histories: what the callers did, kept beside the program's own state *)

NoHist == [calls |-> 0, errors |-> 0, time |-> 0]

Noted(h, key, status_code, response_time) ==
    [h EXCEPT ![key] = [calls |-> @.calls + 1,
                        errors |-> @.errors + (IF status_code > 399 THEN 1 ELSE 0),
                        time |-> @.time + response_time]]

RECURSIVE SumHist(_, _, _)
SumHist(h, keys, field) ==
    IF keys = {} THEN 0
    ELSE LET k == CHOOSE x \in keys : TRUE
         IN  h[k][field] + SumHist(h, keys \ {k}, field)

\* the pairs seen so far, with <<method, endpoint>> added if it is new
FirstSeen(f, method, endpoint) ==
    IF \E i \in DOMAIN f : f[i] = <<method, endpoint>> THEN f
    ELSE Append(f, <<method, endpoint>>)

TotalCalls == SumHist(hist, Keys, "calls")
TotalErrors == SumHist(hist, Keys, "errors")

----------------------------------------------------------------------------
(* Threads calling the store concurrently *)

NoArg ==
    [op |-> "none", method |-> <<>>, endpoint |-> <<>>, status_code |-> 0,
     response_time |-> 0, fault |-> FALSE]

NoScenario == [kind |-> "none", method |-> <<>>, endpoint |-> <<>>,
               response_time |-> 0, pattern |-> "none"]

Init ==
    /\ metrics = <<>>
    /\ lock = NoThread
    /\ clock = 0
    /\ pc = [t \in Threads |-> "idle"]
    /\ arg = [t \in Threads |-> NoArg]
    /\ tmp = [t \in Threads |-> 0]
    /\ ret = [t \in Threads |-> None]
    /\ issued = [t \in Threads |-> 0]
    /\ hist = [k \in Keys |-> NoHist]
    /\ log = <<>>
    /\ first = <<>>
    /\ scenario = NoScenario

\* the key a running track_request works on, and its entry
KeyOf(t) == MakeKey(arg[t].method, arg[t].endpoint)
MetricOf(t) == metrics[IndexOf(metrics, KeyOf(t))]
SetField(t, field, value) ==
    [metrics EXCEPT ![IndexOf(metrics, KeyOf(t))][field] = value]

CanAcquireNoLock(t) == TRUE

\* Lock.acquire: blocks while a thread holds the lock
CanAcquire(t) == lock = NoThread

AfterLock ==
    [tr_lock |-> "tr_key", q_lock |-> "q_body", h_lock |-> "h_body", p_lock |-> "p_body"]

\* `with self.lock:` on entry
Acquire(t) ==
    /\ pc[t] \in DOMAIN AfterLock
    /\ CanAcquire(t)
    /\ lock' = t
    /\ pc' = [pc EXCEPT ![t] = AfterLock[pc[t]]]
    /\ UNCHANGED <<metrics, clock, arg, tmp, ret, issued, hist, log, first, scenario>>

\* a thread enters track_request(endpoint, method, status_code, response_time)
BeginTrack(t, method, endpoint, status_code, response_time) ==
    /\ pc[t] = "idle"
    /\ arg' = [arg EXCEPT ![t] = [NoArg EXCEPT !.op = "track_request",
                                              !.method = method,
                                              !.endpoint = endpoint,
                                              !.status_code = status_code,
                                              !.response_time = response_time]]
    /\ hist' = Noted(hist, MakeKey(method, endpoint), status_code, response_time)
    /\ pc' = [pc EXCEPT ![t] = "tr_lock"]
    /\ UNCHANGED <<metrics, lock, clock, tmp, ret, log, first, scenario>>

\* any thread, any request
CallTrack(t, method, endpoint, status_code, response_time) ==
    /\ TotalCalls < MaxCalls
    /\ BeginTrack(t, method, endpoint, status_code, response_time)
    /\ UNCHANGED issued

\* key = f"{method}:{endpoint}"; metric = self.metrics[key]
TrKey(t) ==
    /\ pc[t] = "tr_key"
    /\ metrics' = WithKey(metrics, KeyOf(t))
    /\ first' = FirstSeen(first, arg[t].method, arg[t].endpoint)
    /\ pc' = [pc EXCEPT ![t] = "tr_count_rd"]
    /\ UNCHANGED <<lock, clock, arg, tmp, ret, issued, hist, log, scenario>>

\* metric['count'] += 1: the load
TrCountRd(t) ==
    /\ pc[t] = "tr_count_rd"
    /\ tmp' = [tmp EXCEPT ![t] = MetricOf(t).count]
    /\ pc' = [pc EXCEPT ![t] = "tr_count_wr"]
    /\ UNCHANGED <<metrics, lock, clock, arg, ret, issued, hist, log, first, scenario>>

\* metric['count'] += 1: the store
TrCountWr(t) ==
    /\ pc[t] = "tr_count_wr"
    /\ metrics' = SetField(t, "count", tmp[t] + 1)
    /\ pc' = [pc EXCEPT ![t] = "tr_time_rd"]
    /\ UNCHANGED <<lock, clock, arg, tmp, ret, issued, hist, log, first, scenario>>

\* metric['total_time'] += response_time: the load
TrTimeRd(t) ==
    /\ pc[t] = "tr_time_rd"
    /\ tmp' = [tmp EXCEPT ![t] = MetricOf(t).total_time]
    /\ pc' = [pc EXCEPT ![t] = "tr_time_wr"]
    /\ UNCHANGED <<metrics, lock, clock, arg, ret, issued, hist, log, first, scenario>>

\* metric['total_time'] += response_time: the store
TrTimeWr(t) ==
    /\ pc[t] = "tr_time_wr"
    /\ metrics' = SetField(t, "total_time", tmp[t] + arg[t].response_time)
    /\ pc' = [pc EXCEPT ![t] = "tr_last"]
    /\ UNCHANGED <<lock, clock, arg, tmp, ret, issued, hist, log, first, scenario>>

\* metric['last_access'] = datetime.now()
TrLast(t) ==
    /\ pc[t] = "tr_last"
    /\ clock' = clock + 1
    /\ metrics' = SetField(t, "last_access", Some(clock'))
    /\ pc' = [pc EXCEPT ![t] = "tr_append"]
    /\ UNCHANGED <<lock, arg, tmp, ret, issued, hist, log, first, scenario>>

\* metric['response_times'].append(response_time)
TrAppend(t) ==
    /\ pc[t] = "tr_append"
    /\ metrics' = SetField(t, "response_times",
                           DequeAppend(MetricOf(t).response_times, arg[t].response_time))
    /\ pc' = [pc EXCEPT ![t] = "tr_cmp"]
    /\ UNCHANGED <<lock, clock, arg, tmp, ret, issued, hist, log, first, scenario>>

\* if status_code >= 400:
TrCmp(t) ==
    /\ pc[t] = "tr_cmp"
    /\ pc' = [pc EXCEPT ![t] = IF IsError(arg[t].status_code) THEN "tr_err_rd"
                               ELSE "exit"]
    /\ UNCHANGED <<metrics, lock, clock, arg, tmp, ret, issued, hist, log, first, scenario>>

\* metric['errors'] += 1: the load
TrErrRd(t) ==
    /\ pc[t] = "tr_err_rd"
    /\ tmp' = [tmp EXCEPT ![t] = MetricOf(t).errors]
    /\ pc' = [pc EXCEPT ![t] = "tr_err_wr"]
    /\ UNCHANGED <<metrics, lock, clock, arg, ret, issued, hist, log, first, scenario>>

\* metric['errors'] += 1: the store
TrErrWr(t) ==
    /\ pc[t] = "tr_err_wr"
    /\ metrics' = SetField(t, "errors", tmp[t] + 1)
    /\ tmp' = [tmp EXCEPT ![t] = 0]
    /\ pc' = [pc EXCEPT ![t] = "exit"]
    /\ UNCHANGED <<lock, clock, arg, ret, issued, hist, log, first, scenario>>

Filters == {None} \cup Keys

\* a thread calls get_endpoint_metrics(endpoint)
CallQuery(t, endpoint) ==
    /\ pc[t] = "idle"
    /\ arg' = [arg EXCEPT ![t] = [NoArg EXCEPT !.op = "get_endpoint_metrics",
                                              !.endpoint = endpoint]]
    /\ pc' = [pc EXCEPT ![t] = "q_lock"]
    /\ UNCHANGED <<metrics, lock, clock, tmp, ret, issued, hist, log, first, scenario>>

\* the locked body of get_endpoint_metrics, up to its return statement
QueryBody(t) ==
    /\ pc[t] = "q_body"
    /\ tmp' = [tmp EXCEPT ![t] = Return(EndpointMetrics(metrics, arg[t].endpoint))]
    /\ metrics' = AfterGet(metrics, arg[t].endpoint)
    /\ pc' = [pc EXCEPT ![t] = "exit"]
    /\ UNCHANGED <<lock, clock, arg, ret, issued, hist, log, first, scenario>>

\* a thread calls get_health_metrics()
CallHealth(t) ==
    /\ pc[t] = "idle"
    /\ arg' = [arg EXCEPT ![t] = [NoArg EXCEPT !.op = "get_health_metrics"]]
    /\ pc' = [pc EXCEPT ![t] = "h_lock"]
    /\ UNCHANGED <<metrics, lock, clock, tmp, ret, issued, hist, log, first, scenario>>

\* the locked body of get_health_metrics: it returns the mapping or raises
HealthBody(t) ==
    /\ pc[t] = "h_body"
    /\ tmp' = [tmp EXCEPT ![t] = HealthMetrics(metrics, clock)]
    /\ pc' = [pc EXCEPT ![t] = "exit"]
    /\ UNCHANGED <<metrics, lock, clock, arg, ret, issued, hist, log, first, scenario>>

\* a thread calls get_prometheus_metrics(); the uptime lines are written before
\* the lock is taken
CallPrometheus(t) ==
    /\ pc[t] = "idle"
    /\ arg' = [arg EXCEPT ![t] = [NoArg EXCEPT !.op = "get_prometheus_metrics"]]
    /\ tmp' = [tmp EXCEPT ![t] = UptimeLines(clock)]
    /\ pc' = [pc EXCEPT ![t] = "p_lock"]
    /\ UNCHANGED <<metrics, lock, clock, ret, issued, hist, log, first, scenario>>

\* the locked loop of get_prometheus_metrics
PrometheusBody(t) ==
    /\ pc[t] = "p_body"
    /\ tmp' = [tmp EXCEPT ![t] = PrometheusText(tmp[t], metrics)]
    /\ pc' = [pc EXCEPT ![t] = "exit"]
    /\ UNCHANGED <<metrics, lock, clock, arg, ret, issued, hist, log, first, scenario>>

StillHeld(t) == t

\* Lock.__exit__: the holder of the lock after the with block is left
Released(t) == NoThread

\* the end of a with block, on return and on raise alike: the lock is released
\* and the outcome (in tmp) goes to the caller, who is free for its next call
Exit(t) ==
    /\ pc[t] = "exit"
    /\ lock' = Released(t)
    /\ pc' = [pc EXCEPT ![t] = "idle"]
    /\ arg' = [arg EXCEPT ![t] = NoArg]
    /\ tmp' = [tmp EXCEPT ![t] = 0]
    /\ UNCHANGED <<metrics, clock, ret, issued, hist, log, first, scenario>>

Next ==
    \E t \in Threads :
        \/ \E m \in Methods, e \in Endpoints, s \in Statuses, d \in Durs :
               CallTrack(t, m, e, s, d)
        \/ Acquire(t)
        \/ TrKey(t)
        \/ TrCountRd(t)
        \/ TrCountWr(t)
        \/ TrTimeRd(t)
        \/ TrTimeWr(t)
        \/ TrLast(t)
        \/ TrAppend(t)
        \/ TrCmp(t)
        \/ TrErrRd(t)
        \/ TrErrWr(t)
        \/ \E f \in Filters : CallQuery(t, f)
        \/ QueryBody(t)
        \/ CallHealth(t)
        \/ HealthBody(t)
        \/ CallPrometheus(t)
        \/ PrometheusBody(t)
        \/ Exit(t)

Spec == Init /\ [][Next]_vars

----------------------------------------------------------------------------
(* The same threads with fewer requests to record, for the properties of     *)
(* steps                                                                     *)

CallTrackFew(t, method, endpoint, status_code, response_time) ==
    /\ TotalCalls < FewCalls
    /\ BeginTrack(t, method, endpoint, status_code, response_time)
    /\ UNCHANGED issued

NextFew ==
    \E t \in Threads :
        \/ \E m \in Methods, e \in Endpoints, s \in Statuses, d \in Durs :
               CallTrackFew(t, m, e, s, d)
        \/ Acquire(t)
        \/ TrKey(t)
        \/ TrCountRd(t)
        \/ TrCountWr(t)
        \/ TrTimeRd(t)
        \/ TrTimeWr(t)
        \/ TrLast(t)
        \/ TrAppend(t)
        \/ TrCmp(t)
        \/ TrErrRd(t)
        \/ TrErrWr(t)
        \/ \E f \in Filters : CallQuery(t, f)
        \/ QueryBody(t)
        \/ CallHealth(t)
        \/ HealthBody(t)
        \/ CallPrometheus(t)
        \/ PrometheusBody(t)
        \/ Exit(t)

SpecFew == Init /\ [][NextFew]_vars

----------------------------------------------------------------------------
(* N threads, each calling track_request M times for one key with status 200 *)
(* and one duration                                                          *)

InitRace ==
    /\ metrics = <<>>
    /\ lock = NoThread
    /\ clock = 0
    /\ pc = [t \in Threads |-> "idle"]
    /\ arg = [t \in Threads |-> NoArg]
    /\ tmp = [t \in Threads |-> 0]
    /\ ret = [t \in Threads |-> None]
    /\ issued = [t \in Threads |-> 0]
    /\ hist = [k \in Keys |-> NoHist]
    /\ log = <<>>
    /\ first = <<>>
    /\ \E m \in Methods, e \in Endpoints, d \in RaceDurs :
           scenario = [NoScenario EXCEPT !.kind = "race", !.method = m,
                                         !.endpoint = e, !.response_time = d]

CallTrackRace(t) ==
    /\ issued[t] < CallsPerThread
    /\ BeginTrack(t, scenario.method, scenario.endpoint, 200, scenario.response_time)
    /\ issued' = [issued EXCEPT ![t] = @ + 1]

NextRace ==
    \E t \in Threads :
        \/ CallTrackRace(t)
        \/ Acquire(t)
        \/ TrKey(t)
        \/ TrCountRd(t)
        \/ TrCountWr(t)
        \/ TrTimeRd(t)
        \/ TrTimeWr(t)
        \/ TrLast(t)
        \/ TrAppend(t)
        \/ TrCmp(t)
        \/ Exit(t)

SpecRace == InitRace /\ [][NextRace]_vars

----------------------------------------------------------------------------
(* One caller at a time: every call runs from its entry to its return *)

Caller == CHOOSE t \in Threads : \A u \in Threads : t <= u

TrackedSharedEntry(m, key, status_code, response_time, now) ==
    LET m1 == WithKey(m, key)
    IN  [i \in DOMAIN m1 |->
            [m1[i] EXCEPT !.count = @ + 1,
                          !.total_time = @ + response_time,
                          !.last_access = Some(now),
                          !.response_times = DequeAppend(@, response_time),
                          !.errors = IF IsError(status_code) THEN @ + 1 ELSE @]]

\* the whole of track_request
Tracked(m, key, status_code, response_time, now) ==
    LET m1 == WithKey(m, key)
        i == IndexOf(m1, key)
    IN  [m1 EXCEPT ![i] =
            [@ EXCEPT !.count = @ + 1,
                      !.total_time = @ + response_time,
                      !.last_access = Some(now),
                      !.response_times = DequeAppend(@, response_time),
                      !.errors = IF IsError(status_code) THEN @ + 1 ELSE @]]

SeqTrack(budget, method, endpoint, status_code, response_time) ==
    /\ pc[Caller] = "idle"
    /\ TotalCalls < budget
    /\ clock' = clock + 1
    /\ metrics' = Tracked(metrics, MakeKey(method, endpoint), status_code,
                          response_time, clock')
    /\ hist' = Noted(hist, MakeKey(method, endpoint), status_code, response_time)
    /\ first' = FirstSeen(first, method, endpoint)
    /\ UNCHANGED <<lock, pc, arg, tmp, ret, issued, log, scenario>>

\* the call has returned or raised: its outcome is with the caller, and the
\* store is as the call left it
Returned(op, endpoint, fault, outcome, store) ==
    /\ pc[Caller] = "idle"
    /\ pc' = [pc EXCEPT ![Caller] = "done"]
    /\ arg' = [arg EXCEPT ![Caller] = [NoArg EXCEPT !.op = op, !.endpoint = endpoint,
                                                    !.fault = fault]]
    /\ ret' = [ret EXCEPT ![Caller] = Some(outcome)]
    /\ metrics' = store
    /\ UNCHANGED <<lock, clock, tmp, issued, hist, log, first, scenario>>

SeqQuery(endpoint) ==
    Returned("get_endpoint_metrics", endpoint, FALSE,
             Return(EndpointMetrics(metrics, endpoint)), AfterGet(metrics, endpoint))

SeqHealth ==
    Returned("get_health_metrics", None, FALSE, HealthMetrics(metrics, clock),
             metrics)

SeqPrometheus ==
    Returned("get_prometheus_metrics", None, FALSE,
             PrometheusText(UptimeLines(clock), metrics), metrics)

\* GET /metrics.  fault: an exception that does not come from the store's logic
\* (a MemoryError, say) strikes the call the handler makes.
SeqScrape(fault) ==
    Returned("prometheus_metrics", None, fault,
             Return(PrometheusResponse(
                        IF fault THEN Raise("Exception")
                        ELSE PrometheusText(UptimeLines(clock), metrics))),
             metrics)

\* the caller has taken the outcome and is free for its next call
Finish ==
    /\ pc[Caller] = "done"
    /\ pc' = [pc EXCEPT ![Caller] = "idle"]
    /\ arg' = [arg EXCEPT ![Caller] = NoArg]
    /\ ret' = [ret EXCEPT ![Caller] = None]
    /\ UNCHANGED <<metrics, lock, clock, tmp, issued, hist, log, first, scenario>>

NextSeq ==
    \/ \E m \in Methods, e \in Endpoints, s \in BoundaryStatuses, d \in Durs :
           SeqTrack(SeqCalls, m, e, s, d)
    \/ \E f \in Filters : SeqQuery(f)
    \/ SeqHealth
    \/ SeqPrometheus
    \/ \E fault \in BOOLEAN : SeqScrape(fault)
    \/ Finish

SpecSeq == Init /\ [][NextSeq]_vars

----------------------------------------------------------------------------
(* One caller recording many requests and asking for the health verdict *)

NextHealth ==
    \/ \E m \in Methods, e \in Endpoints, s \in Statuses, d \in Durs :
           SeqTrack(MaxRequests, m, e, s, d)
    \/ SeqHealth
    \/ Finish

SpecHealth == Init /\ [][NextHealth]_vars

----------------------------------------------------------------------------
(* One caller recording a long run of durations for one key *)

WindowMethod == GET
WindowEndpoint == CHOOSE e \in Endpoints : TRUE
WindowKey == MakeKey(WindowMethod, WindowEndpoint)

\* the duration of the n-th call of the run
PatternDur(pattern, n) ==
    CASE pattern = "up" -> n
      [] pattern = "down" -> WindowCalls + 1 - n
      [] pattern = "saw" -> (n % 7) + 1
      [] pattern = "pulse" -> IF n = 1 THEN 1 ELSE 0

InitWindow ==
    /\ metrics = <<>>
    /\ lock = NoThread
    /\ clock = 0
    /\ pc = [t \in Threads |-> "idle"]
    /\ arg = [t \in Threads |-> NoArg]
    /\ tmp = [t \in Threads |-> 0]
    /\ ret = [t \in Threads |-> None]
    /\ issued = [t \in Threads |-> 0]
    /\ hist = [k \in Keys |-> NoHist]
    /\ log = <<>>
    /\ first = <<>>
    /\ \E p \in Patterns :
           scenario = [NoScenario EXCEPT !.kind = "window", !.method = WindowMethod,
                                         !.endpoint = WindowEndpoint, !.pattern = p]

WindowTrack ==
    LET d == PatternDur(scenario.pattern, Len(log) + 1)
    IN  /\ pc[Caller] = "idle"
        /\ Len(log) < WindowCalls
        /\ clock' = clock + 1
        /\ metrics' = Tracked(metrics, WindowKey, 200, d, clock')
        /\ hist' = Noted(hist, WindowKey, 200, d)
        /\ log' = Append(log, d)
        /\ first' = FirstSeen(first, WindowMethod, WindowEndpoint)
        /\ UNCHANGED <<lock, pc, arg, tmp, ret, issued, scenario>>

NextWindow ==
    \/ WindowTrack
    \/ \E f \in {None, WindowKey} : SeqQuery(f)
    \/ Finish

SpecWindow == InitWindow /\ [][NextWindow]_vars

----------------------------------------------------------------------------
(* HTTP requests served by app.py, one at a time.  A name that holds no colon *)
(* is written as one item of its character sequence.                         *)

\* what a view function hands back: jsonify(...) is a Response (status 200), the
\* except branches return the tuple (jsonify(...), status)
Response(status_code) == [type |-> "Response", status_code |-> status_code]
BodyAndStatus(status_code) == [type |-> "tuple", status_code |-> status_code]

\* a dict of headers where a status code is expected: it stands for any value
\* that `>=` cannot compare with 400 (no status code is negative)
HeadersDict == -1

\* the other shapes Flask takes from a view function: the tuple (body, headers),
\* whose second item is a dict, and a plain body (a str or a dict)
BodyAndHeaders == [type |-> "tuple", status_code |-> HeadersDict]
PlainBody == [type |-> "str"]

\* the view functions of app.py with their routes; tracked: the function
\* carries @track_metrics(metrics_service).  request.endpoint is the name of the
\* view function.
Routes ==
    {[endpoint |-> <<"health_check">>, method |-> GET, tracked |-> TRUE],
     [endpoint |-> <<"descriptive_analysis">>, method |-> POST, tracked |-> TRUE],
     [endpoint |-> <<"correlation_analysis">>, method |-> POST, tracked |-> FALSE],
     [endpoint |-> <<"prometheus_metrics">>, method |-> GET, tracked |-> FALSE]}

\* a URL that matches no route: request.endpoint is None and the 404 handler
\* answers, without track_metrics
NoRoute == [endpoint |-> None, method |-> GET, tracked |-> FALSE]

\* try: return jsonify(result)  except Exception: return jsonify({...}), 500
\* (prometheus_metrics returns a tuple with 200 or 500, see PrometheusResponse)
ViewResults(route) ==
    IF route = NoRoute THEN {Return(BodyAndStatus(404))}
    ELSE IF route.endpoint = <<"prometheus_metrics">>
         THEN {Return(BodyAndStatus(200)), Return(BodyAndStatus(500))}
    ELSE {Return(Response(200)), Return(BodyAndStatus(500))}

StatusCodeOfAttribute(result) ==
    IF result.type = "Response" THEN result.status_code ELSE 200

\* the status code the wrapper reads off a result: the status_code attribute,
\* else the second item of a tuple of two or more, else 200
StatusCodeOf(result) ==
    IF result.type = "Response" THEN result.status_code
    ELSE IF result.type = "tuple" THEN result.status_code
    ELSE 200

\* status_code >= 400 can be evaluated
Comparable(status_code) == status_code /= HeadersDict

\* track_request up to `if status_code >= 400:`, where the comparison raises
TrackedUpToCompare(m, key, response_time, now) ==
    LET m1 == WithKey(m, key)
        i == IndexOf(m1, key)
    IN  [m1 EXCEPT ![i] =
            [@ EXCEPT !.count = @ + 1,
                      !.total_time = @ + response_time,
                      !.last_access = Some(now),
                      !.response_times = DequeAppend(@, response_time)]]

\* track_request as its caller sees it: the store it leaves and its outcome.
\* The with block releases the lock on the way out of a raise; what was written
\* before the raise stays written.
TrackRequest(m, key, status_code, response_time, now) ==
    IF Comparable(status_code)
    THEN [store |-> Tracked(m, key, status_code, response_time, now),
          outcome |-> Return(None)]
    ELSE [store |-> TrackedUpToCompare(m, key, response_time, now),
          outcome |-> Raise("TypeError")]

\* the argument list of one track_request call
TrackArgs(endpoint, method, status_code, response_time) ==
    [endpoint |-> endpoint, method |-> method, status_code |-> status_code,
     response_time |-> response_time]

\* wrapper of track_metrics around a view function whose call ended in `outcome`:
\* the track_request calls it makes, and what it hands to Flask.  The first
\* track_request sits inside the try block: if it raises, the except branch
\* records the request again with 500 and re-raises that exception.
Wrapper(endpoint, method, outcome, response_time) ==
    LET name == IF endpoint = None THEN <<"unknown">> ELSE endpoint
        failed == TrackArgs(name, method, 500, response_time)
    IN  IF outcome.kind = "return"
        THEN LET call == TrackArgs(name, method, StatusCodeOf(outcome.val),
                                   response_time)
             IN  IF Comparable(call.status_code)
                 THEN [calls |-> <<call>>, outcome |-> outcome]
                 ELSE [calls |-> <<call, failed>>, outcome |-> Raise("TypeError")]
        ELSE [calls |-> <<failed>>, outcome |-> outcome]

\* a view function as Flask calls it: wrapped or bare
Dispatch(route, outcome, response_time) ==
    IF route.tracked THEN Wrapper(route.endpoint, route.method, outcome, response_time)
    ELSE [calls |-> <<>>, outcome |-> outcome]

\* the store after the track_request calls of `calls`, the first at time now + 1
RECURSIVE TrackedAll(_, _, _)
TrackedAll(m, calls, now) ==
    IF calls = <<>> THEN m
    ELSE TrackedAll(TrackRequest(m, MakeKey(calls[1].method, calls[1].endpoint),
                                 calls[1].status_code, calls[1].response_time,
                                 now + 1).store,
                    Tail(calls), now + 1)

RECURSIVE FirstSeenAll(_, _)
FirstSeenAll(f, calls) ==
    IF calls = <<>> THEN f
    ELSE FirstSeenAll(FirstSeen(f, calls[1].method, calls[1].endpoint), Tail(calls))

\* Flask serves one request: the view function (or the 404 handler) runs and
\* the response is ready.  log holds the track_request calls made for it.
Serve(route, outcome, response_time) ==
    LET d == Dispatch(route, outcome, response_time)
    IN  /\ pc[Caller] = "idle"
        /\ issued[Caller] + Len(d.calls) <= AppCalls
        /\ metrics' = TrackedAll(metrics, d.calls, clock)
        /\ clock' = clock + Len(d.calls)
        /\ issued' = [issued EXCEPT ![Caller] = @ + Len(d.calls)]
        /\ log' = d.calls
        /\ first' = FirstSeenAll(first, d.calls)
        /\ pc' = [pc EXCEPT ![Caller] = "done"]
        /\ arg' = [arg EXCEPT ![Caller] =
                       [NoArg EXCEPT !.op = "request", !.method = route.method,
                                     !.endpoint = route.endpoint,
                                     !.status_code = d.outcome.val.status_code]]
        /\ ret' = [ret EXCEPT ![Caller] = Some(d.outcome)]
        /\ UNCHANGED <<lock, tmp, hist, scenario>>

\* the response has gone out and the worker is free for its next request
Respond ==
    /\ pc[Caller] = "done"
    /\ pc' = [pc EXCEPT ![Caller] = "idle"]
    /\ arg' = [arg EXCEPT ![Caller] = NoArg]
    /\ ret' = [ret EXCEPT ![Caller] = None]
    /\ tmp' = [tmp EXCEPT ![Caller] = 0]
    /\ log' = <<>>
    /\ UNCHANGED <<metrics, lock, clock, issued, hist, first, scenario>>

NextApp ==
    \/ \E route \in Routes \cup {NoRoute}, d \in Durs :
           \E outcome \in ViewResults(route) : Serve(route, outcome, d)
    \/ Respond

SpecApp == Init /\ [][NextApp]_vars

----------------------------------------------------------------------------
(* Any view function under track_metrics, and track_request called directly, *)
(* one call at a time                                                        *)

\* what a view function can do: return any shape Flask accepts, or raise
WrappedOutcomes ==
    {Return(Response(200)), Return(BodyAndStatus(500)), Return(PlainBody),
     Return(BodyAndHeaders), Raise("ValueError")}

\* request.endpoint: the name of the view function, or None
WrappedEndpoints == {<<"view">>, None}

\* a call of the wrapper; tmp keeps the outcome of the view function beside the
\* outcome of the wrapper (ret), log the track_request calls made
CallWrapped(endpoint, method, outcome, response_time) ==
    LET w == Wrapper(endpoint, method, outcome, response_time)
    IN  /\ pc[Caller] = "idle"
        /\ issued[Caller] + Len(w.calls) <= WrapCalls
        /\ metrics' = TrackedAll(metrics, w.calls, clock)
        /\ clock' = clock + Len(w.calls)
        /\ issued' = [issued EXCEPT ![Caller] = @ + Len(w.calls)]
        /\ log' = w.calls
        /\ first' = FirstSeenAll(first, w.calls)
        /\ pc' = [pc EXCEPT ![Caller] = "done"]
        /\ arg' = [arg EXCEPT ![Caller] =
                       [NoArg EXCEPT !.op = "wrapper", !.method = method,
                                     !.endpoint = endpoint]]
        /\ tmp' = [tmp EXCEPT ![Caller] = outcome]
        /\ ret' = [ret EXCEPT ![Caller] = Some(w.outcome)]
        /\ UNCHANGED <<lock, hist, scenario>>

\* a call of track_request itself
DirectTrack(endpoint, method, status_code, response_time) ==
    LET r == TrackRequest(metrics, MakeKey(method, endpoint), status_code,
                          response_time, clock + 1)
    IN  /\ pc[Caller] = "idle"
        /\ issued[Caller] < WrapCalls
        /\ metrics' = r.store
        /\ clock' = clock + 1
        /\ issued' = [issued EXCEPT ![Caller] = @ + 1]
        /\ log' = <<TrackArgs(endpoint, method, status_code, response_time)>>
        /\ first' = FirstSeen(first, method, endpoint)
        /\ pc' = [pc EXCEPT ![Caller] = "done"]
        /\ arg' = [arg EXCEPT ![Caller] =
                       [NoArg EXCEPT !.op = "track_request", !.method = method,
                                     !.endpoint = endpoint,
                                     !.status_code = status_code,
                                     !.response_time = response_time]]
        /\ ret' = [ret EXCEPT ![Caller] = Some(r.outcome)]
        /\ UNCHANGED <<lock, tmp, hist, scenario>>

NextWrapped ==
    \/ \E e \in WrappedEndpoints, m \in Methods, d \in Durs :
           \E outcome \in WrappedOutcomes : CallWrapped(e, m, outcome, d)
    \/ \E m \in Methods, s \in {200, 500, HeadersDict}, d \in Durs :
           DirectTrack(<<"view">>, m, s, d)
    \/ Respond

SpecWrapped == Init /\ [][NextWrapped]_vars

----------------------------------------------------------------------------
(* One caller of track_request with any non-empty strings for method and     *)
(* endpoint, a colon among their characters                                  *)

PairMethods == {<<"G">>, <<"G", ":", "x">>}
PairEndpoints == {<<"y">>, <<"x", ":", "y">>}

\* log holds the (method, endpoint) pairs of the calls, in order
TrackPair(method, endpoint) ==
    /\ pc[Caller] = "idle"
    /\ Len(log) < PairCalls
    /\ clock' = clock + 1
    /\ metrics' = Tracked(metrics, MakeKey(method, endpoint), 200, 1, clock')
    /\ log' = Append(log, <<method, endpoint>>)
    /\ first' = FirstSeen(first, method, endpoint)
    /\ UNCHANGED <<lock, pc, arg, tmp, ret, issued, hist, scenario>>

NextPairs ==
    \/ \E m \in PairMethods, e \in PairEndpoints : TrackPair(m, e)
    \/ SeqPrometheus
    \/ Finish

SpecPairs == Init /\ [][NextPairs]_vars

----------------------------------------------------------------------------
(* Threads whose reads walk the store entry by entry: the loops over         *)
(* self.metrics.items() and .values() take one step per entry, the body of   *)
(* track_request one step as a whole.                                        *)

CallTrackScan(t, method, endpoint, status_code, response_time) ==
    /\ TotalCalls < ScanCalls
    /\ BeginTrack(t, method, endpoint, status_code, response_time)
    /\ UNCHANGED issued

\* the locked body of track_request
TrackBody(t) ==
    /\ pc[t] = "tr_key"
    /\ clock' = clock + 1
    /\ metrics' = Tracked(metrics, KeyOf(t), arg[t].status_code,
                          arg[t].response_time, clock')
    /\ first' = FirstSeen(first, arg[t].method, arg[t].endpoint)
    /\ pc' = [pc EXCEPT ![t] = "exit"]
    /\ UNCHANGED <<lock, arg, tmp, ret, issued, hist, log, scenario>>

\* a reader enters its loop: no entry seen yet (lines: the text written before
\* the lock, for get_prometheus_metrics)
ScanStart(t) ==
    /\ pc[t] \in {"q_body", "h_body", "p_body"}
    /\ pc' = [pc EXCEPT ![t] = "scan"]
    /\ tmp' = [tmp EXCEPT ![t] = [lines |-> IF pc[t] = "p_body" THEN tmp[t] ELSE <<>>,
                                  seen |-> <<>>]]
    /\ UNCHANGED <<metrics, lock, clock, arg, ret, issued, hist, log, first, scenario>>

\* one turn of the loop: the next entry of the store is read
ScanNext(t) ==
    /\ pc[t] = "scan"
    /\ Len(tmp[t].seen) < Len(metrics)
    /\ UNCHANGED <<metrics, lock, clock, pc, arg, ret, issued, hist, log, first,
                   scenario>>
    /\ tmp' = [tmp EXCEPT ![t].seen = Append(@, metrics[Len(@) + 1])]

\* the loop is over: the result is built from the entries read, or the
\* statement after the loop raises
ScanEnd(t) ==
    /\ pc[t] = "scan"
    /\ Len(tmp[t].seen) >= Len(metrics)
    /\ pc' = [pc EXCEPT ![t] = "exit"]
    /\ tmp' = [tmp EXCEPT ![t] =
                   CASE arg[t].op = "get_endpoint_metrics" ->
                            Return(EndpointMetrics(tmp[t].seen, arg[t].endpoint))
                     [] arg[t].op = "get_health_metrics" ->
                            HealthMetrics(tmp[t].seen, clock)
                     [] arg[t].op = "get_prometheus_metrics" ->
                            PrometheusText(tmp[t].lines, tmp[t].seen)]
    /\ UNCHANGED <<metrics, lock, clock, arg, ret, issued, hist, log, first, scenario>>

\* the steps of a call that has started
StepScan(t) ==
    \/ Acquire(t)
    \/ TrackBody(t)
    \/ ScanStart(t)
    \/ ScanNext(t)
    \/ ScanEnd(t)
    \/ Exit(t)

NextScan ==
    \E t \in Threads :
        \/ \E m \in Methods, e \in Endpoints, s \in Statuses, d \in Durs :
               CallTrackScan(t, m, e, s, d)
        \/ CallQuery(t, None)
        \/ CallHealth(t)
        \/ CallPrometheus(t)
        \/ StepScan(t)

\* where each thread is: its position in the code and in its loop
Position ==
    [t \in Threads |-> <<pc[t], IF pc[t] = "scan" THEN Len(tmp[t].seen) ELSE 0>>]

SpecScan == Init /\ [][NextScan]_vars

\* The same threads under weakly fair scheduling: a thread that has started a
\* call keeps taking its steps; nothing makes a thread start a call.
CallTrackLive(t, method, endpoint, status_code, response_time) ==
    /\ TotalCalls < LiveCalls
    /\ BeginTrack(t, method, endpoint, status_code, response_time)
    /\ UNCHANGED issued

NextLive ==
    \E t \in Threads :
        \/ \E m \in Methods, e \in Endpoints, s \in Statuses, d \in Durs :
               CallTrackLive(t, m, e, s, d)
        \/ CallQuery(t, None)
        \/ CallHealth(t)
        \/ CallPrometheus(t)
        \/ StepScan(t)

SpecLive ==
    Init /\ [][NextLive]_vars /\ \A t \in Threads : WF_Position(StepScan(t))

----------------------------------------------------------------------------
(* Properties *)

\* the outcome the single caller holds, and the call it came from
Out == ret[Caller][1]
DoneWith(op) == pc[Caller] = "done" /\ arg[Caller].op = op
DoneWithQuery(endpoint) ==
    DoneWith("get_endpoint_metrics") /\ arg[Caller].endpoint = endpoint

Entry(key) == metrics[IndexOf(metrics, key)]

ViewFields ==
    {"total_requests", "total_errors", "error_rate", "avg_response_time_ms",
     "p95_response_time_ms", "last_access"}

\* C1: get_health_metrics on a store in which no request was ever recorded
\* returns normally, with total_requests = 0, overall_error_rate = 0 and
\* service_status = "unknown".
C1_HealthOfEmptyStore ==
    (DoneWith("get_health_metrics") /\ TotalCalls = 0 /\ metrics = <<>>) =>
        /\ Out.kind = "return"
        /\ Out.val.total_requests = 0
        /\ Out.val.overall_error_rate = IntZero
        /\ Out.val.service_status = "unknown"

\* C2: when each of the N threads has made M track_request calls for one key
\* with status 200 and one duration, and all calls have returned, the key's
\* count is N*M, its total_time is N*M*duration and its errors is 0.
C2_NoLostUpdates ==
    \A M \in 1..CallsPerThread :
        (\A t \in Threads : pc[t] = "idle" /\ issued[t] = M) =>
            /\ HasKey(metrics, MakeKey(scenario.method, scenario.endpoint))
            /\ LET e == Entry(MakeKey(scenario.method, scenario.endpoint))
               IN  /\ e.count = NumThreads * M
                   /\ e.total_time = NumThreads * M * scenario.response_time
                   /\ e.errors = 0

C2_AllThreadsDone ==
    /\ \A t \in Threads : pc[t] = "idle" /\ issued[t] = CallsPerThread
    /\ CallsPerThread >= 2
    /\ hist[MakeKey(scenario.method, scenario.endpoint)].calls
           = NumThreads * CallsPerThread
    /\ Entry(MakeKey(scenario.method, scenario.endpoint)).count
           = NumThreads * CallsPerThread

\* C3 as claimed: GET /metrics always answers with status 200, with the
\* fallback text when get_prometheus_metrics raised.
C3_ScrapeAlways200 ==
    DoneWith("prometheus_metrics") =>
        /\ Out.kind = "return"
        /\ Out.val.status = 200
        /\ arg[Caller].fault => Out.val.body = FallbackText

\* C3 as amended: GET /metrics never lets an exception through; it answers 200
\* with the exposition text when get_prometheus_metrics returned, and 500 with
\* the fallback text when it raised.
C3_ScrapeNeverRaises ==
    DoneWith("prometheus_metrics") =>
        /\ Out.kind = "return"
        /\ Out.val.content_type = ContentType
        /\ IF arg[Caller].fault
           THEN Out.val.status = 500 /\ Out.val.body = FallbackText
           ELSE Out.val.status = 200 /\ Len(Out.val.body) = 3 + 9 * Len(metrics)

C3_ScrapeFailed ==
    /\ DoneWith("prometheus_metrics")
    /\ arg[Caller].fault
    /\ Out.val.status = 500
    /\ Out.val.body = FallbackText
    /\ metrics /= <<>>

\* C4: get_endpoint_metrics with a filter naming a present key returns that
\* key's derived view: the six view fields, with the values the unfiltered
\* query reports for the key in the same store state.
C4_FilteredViewIsDerived ==
    (/\ DoneWith("get_endpoint_metrics")
     /\ arg[Caller].endpoint /= None
     /\ HasKey(metrics, arg[Caller].endpoint)) =>
        /\ Out.kind = "return"
        /\ DOMAIN Out.val = ViewFields
        /\ Out.val = EndpointMetrics(metrics, None)[arg[Caller].endpoint]

\* C5: with total_requests > 0, get_health_metrics reports "healthy" exactly
\* when 20 * total_errors < total_requests and "degraded" otherwise (so 1 error
\* in 20 requests is degraded, a lone success healthy, a lone failure degraded).
C5_StatusThreshold ==
    (DoneWith("get_health_metrics") /\ TotalCalls > 0) =>
        /\ Out.kind = "return"
        /\ Out.val.service_status =
               IF 20 * TotalErrors < TotalCalls THEN "healthy" ELSE "degraded"

C5_AtThreshold ==
    /\ DoneWith("get_health_metrics")
    /\ TotalCalls = 20
    /\ TotalErrors = 1
    /\ Out.val.service_status = "degraded"

\* C6: after any sequence of track_request calls, the view of every key reports
\* as total_requests the number of calls made for the key and as total_errors
\* the number of those with a status >= 400 (400 counts, 399 does not).
C6_CountsMatchCalls ==
    DoneWithQuery(None) =>
        \A k \in Keys :
            hist[k].calls > 0 =>
                /\ k \in DOMAIN Out.val
                /\ Out.val[k].total_requests = hist[k].calls
                /\ Out.val[k].total_errors = hist[k].errors

\* the calls of SpecSeq carry 399 or 400: a key with errors and non-errors has
\* seen both
C6_BothSidesOf400 ==
    /\ DoneWithQuery(None)
    /\ \E k \in Keys :
           /\ hist[k].errors >= 1
           /\ hist[k].calls > hist[k].errors
           /\ Out.val[k].total_errors = hist[k].errors
           /\ Out.val[k].total_requests = hist[k].calls

\* C7: in every state, whatever the interleaving of track_request calls and
\* reads, every entry has 0 <= errors <= count.
C7_ErrorsWithinCount ==
    \A i \in DOMAIN metrics :
        /\ 0 <= metrics[i].errors
        /\ metrics[i].errors <= metrics[i].count

C7_MidUpdate ==
    \E t, u \in Threads :
        /\ pc[t] = "tr_err_rd"
        /\ pc[u] = "tr_lock"
        /\ MetricOf(t).errors >= 1
        /\ MetricOf(t).errors < MetricOf(t).count

Min(a, b) == IF a <= b THEN a ELSE b

\* C8: in every state the window of a key holds at most 100 values and is, in
\* order, the durations of the last min(n, 100) of the n calls made for the key.
C8_WindowIsRecentCalls ==
    \A i \in DOMAIN metrics :
        metrics[i].key = WindowKey =>
            LET w == metrics[i].response_times
                n == Len(log)
            IN  /\ Len(w) <= 100
                /\ Len(w) = Min(n, 100)
                /\ w = SubSeq(log, n - Len(w) + 1, n)

C8_OldestEvicted ==
    /\ Len(log) = 150
    /\ scenario.pattern = "up"
    /\ Len(Entry(WindowKey).response_times) = 100
    /\ Entry(WindowKey).response_times[1] = log[51]
    /\ Entry(WindowKey).response_times[100] = log[150]

\* C9: the p95 of a key is 1000 times the item at index floor(0.95 L) of the
\* ascending order of its last L = min(n, 100) durations, that index lies inside
\* the window, and after 150 calls with durations d1 < ... < d150 it is d146.
C9_P95OfRecentCalls ==
    (DoneWithQuery(None) /\ Len(log) > 0) =>
        LET n == Len(log)
            L == Min(n, 100)
            recent == SubSeq(log, n - L + 1, n)
            idx == (19 * L) \div 20
            v == Out.val[WindowKey].p95_response_time_ms
            d == v \div 100000
        IN  /\ 0 <= idx /\ idx < L
            /\ v = 100000 * d
            /\ Cardinality({j \in 1..L : recent[j] < d}) <= idx
            /\ idx < Cardinality({j \in 1..L : recent[j] <= d})
            /\ (scenario.pattern = "up" /\ n = 150) => d = log[146]

C9_After150Rising ==
    /\ DoneWithQuery(None)
    /\ scenario.pattern = "up"
    /\ Len(log) = 150
    /\ \A j \in 1..149 : log[j] < log[j + 1]
    /\ Out.val[WindowKey].p95_response_time_ms = 100000 * log[146]

\* C10: the average of a key is 1000 * (the sum of the durations of all calls
\* ever made for the key) / count, to two decimals: durations that have left
\* the window still count.
C10_AverageOfAllCalls ==
    (DoneWithQuery(None) /\ Len(log) > 0) =>
        LET c == Len(log)
            total == hist[WindowKey].time
            v == Out.val[WindowKey].avg_response_time_ms
            diff == v * c - 100000 * total
        IN  /\ Out.val[WindowKey].total_requests = c
            /\ 2 * diff <= c
            /\ 2 * (0 - diff) <= c

\* the one non-zero duration has left the window: the p95 is 0, the average not
C10_EvictedStillCounts ==
    /\ DoneWithQuery(None)
    /\ scenario.pattern = "pulse"
    /\ Len(log) > 100
    /\ \A j \in 1..100 : Entry(WindowKey).response_times[j] = 0
    /\ Out.val[WindowKey].p95_response_time_ms = 0
    /\ Out.val[WindowKey].avg_response_time_ms > 0

\* the keys for which a track_request call has been made
Recorded == {k \in Keys : hist[k].calls > 0}

\* C11: get_endpoint_metrics with a filter that names no key of the store
\* returns an empty mapping, does not raise and creates no entry: after the
\* call the key set and the number of entries are those of the recorded keys.
C11_AbsentKeyLookup ==
    \A k \in Keys :
        (DoneWithQuery(k) /\ hist[k].calls = 0) =>
            /\ Out.kind = "return"
            /\ Out.val = EmptyDict
            /\ KeySet(metrics) = Recorded
            /\ Len(metrics) = Cardinality(Recorded)

C11_AbsentKeyAsked ==
    \E k \in Keys :
        /\ DoneWithQuery(k)
        /\ hist[k].calls = 0
        /\ metrics /= <<>>
        /\ Out.val = EmptyDict

\* the (method, endpoint) pairs given to track_request so far
RecordedPairs == {first[i] : i \in DOMAIN first}

\* C12: get_endpoint_metrics without a filter returns one derived view for
\* every (method, endpoint) pair recorded and nothing else, the view of the pair
\* (M, E) under the key "M:E" and counting the calls made for that pair.
C12_OneViewPerKey ==
    DoneWithQuery(None) =>
        /\ Out.kind = "return"
        /\ DOMAIN Out.val = {p[1] \o <<":">> \o p[2] : p \in RecordedPairs}
        /\ \A p \in RecordedPairs :
               LET view == Out.val[p[1] \o <<":">> \o p[2]]
               IN  /\ DOMAIN view = ViewFields
                   /\ view.total_requests = hist[MakeKey(p[1], p[2])].calls

C12_TwoKeysListed ==
    /\ DoneWithQuery(None)
    /\ Len(first) = 2
    /\ <<"G", "E", "T", ":", "/", "h">> \in DOMAIN Out.val
    /\ Out.val[<<"P", "O", "S", "T", ":", "/", "h">>].total_requests = 2

\* C13: get_prometheus_metrics never raises, and on a store with no recorded
\* request its text is the three service_uptime_seconds lines (HELP, TYPE and
\* value) and nothing more.
C13_ExpositionNeverRaises ==
    DoneWith("get_prometheus_metrics") =>
        /\ Out.kind = "return"
        /\ (first = <<>>) =>
               Out.val = << <<"# HELP", "service_uptime_seconds",
                              "Service uptime in seconds">>,
                            <<"# TYPE", "service_uptime_seconds", "counter">>,
                            <<"service_uptime_seconds", <<>>, clock>> >>

C13_EmptyStoreScraped ==
    /\ DoneWith("get_prometheus_metrics")
    /\ first = <<>>
    /\ metrics = <<>>
    /\ Len(Out.val) = 3

\* the lines a thread's get_prometheus_metrics has built, once its loop is over
\* (the lock is still held)
Scraped(t) == pc[t] = "exit" /\ arg[t].op = "get_prometheus_metrics"
HasLine(lines, line) == \E i \in DOMAIN lines : lines[i] = line

\* C14: for every key "M:E" of the store, the text of get_prometheus_metrics
\* has the value lines http_requests_total{M, E} count, http_errors_total{M, E}
\* errors and http_request_duration_seconds{M, E} total_time / count (seconds),
\* with count, errors and total_time as they are in the store while the reader
\* holds the lock.
C14_ValueLinesPerKey ==
    \A t \in Threads :
        Scraped(t) =>
            /\ tmp[t].kind = "return"
            /\ \A M \in Methods, E \in Endpoints :
                   LET key == M \o <<":">> \o E
                   IN  HasKey(metrics, key) =>
                           /\ HasLine(tmp[t].val,
                                      <<"http_requests_total", <<M, E>>,
                                        Entry(key).count>>)
                           /\ HasLine(tmp[t].val,
                                      <<"http_errors_total", <<M, E>>,
                                        Entry(key).errors>>)
                           /\ \E n \in 0..Entry(key).total_time,
                                  d \in 1..Entry(key).count :
                                  /\ n * Entry(key).count = d * Entry(key).total_time
                                  /\ HasLine(tmp[t].val,
                                             <<"http_request_duration_seconds",
                                               <<M, E>>, <<n, d>> >>)

C14_OneGetOk ==
    \E t \in Threads :
        /\ Scraped(t)
        /\ TotalCalls = 1
        /\ hist[MakeKey(GET, <<"/", "h">>)] = [calls |-> 1, errors |-> 0, time |-> 1]
        /\ HasLine(tmp[t].val, <<"http_requests_total", <<GET, <<"/", "h">> >>, 1>>)
        /\ HasLine(tmp[t].val, <<"http_errors_total", <<GET, <<"/", "h">> >>, 0>>)

\* the three metric names of a per-key block, in the order they are written
BlockNames ==
    <<"http_requests_total", "http_errors_total", "http_request_duration_seconds">>

\* lines i, i + 1 and i + 2 are the HELP, TYPE and value line of `name`, the
\* value line carrying `labels`
IsTriple(lines, i, name, labels) ==
    /\ lines[i][1] = "# HELP" /\ lines[i][2] = name
    /\ lines[i + 1][1] = "# TYPE" /\ lines[i + 1][2] = name
    /\ lines[i + 2][1] = name /\ lines[i + 2][2] = labels

\* C15: the text of get_prometheus_metrics is the uptime block followed by one
\* nine-line block per key (HELP, TYPE and value line of each of the three
\* metrics), the blocks in the order in which the keys were first recorded;
\* with k keys it has 3 + 9 * k lines.
C15_BlocksInFirstRecordedOrder ==
    DoneWith("get_prometheus_metrics") =>
        /\ Out.kind = "return"
        /\ Len(Out.val) = 3 + 9 * Len(first)
        /\ IsTriple(Out.val, 1, "service_uptime_seconds", None)
        /\ \A j \in DOMAIN first, n \in DOMAIN BlockNames :
               IsTriple(Out.val, 3 + 9 * (j - 1) + 3 * (n - 1) + 1, BlockNames[n],
                        first[j])

C15_TwoBlocksPostFirst ==
    /\ DoneWith("get_prometheus_metrics")
    /\ first = << <<POST, <<"/", "h">> >>, <<GET, <<"/", "h">> >> >>
    /\ Len(Out.val) = 21
    /\ Out.val[6][2] = <<POST, <<"/", "h">> >>
    /\ Out.val[21][2] = <<GET, <<"/", "h">> >>

\* C16: for every HTTP request the service completes, track_request has been
\* called exactly once, with the request's method, its endpoint name and the
\* status code of the response.
C16_EveryRequestRecordedOnce ==
    DoneWith("request") =>
        /\ Len(log) = 1
        /\ log[1].method = arg[Caller].method
        /\ log[1].endpoint = arg[Caller].endpoint
        /\ log[1].status_code = arg[Caller].status_code

\* a thread is inside a `with self.lock:` block
InSection(t) == pc[t] \notin ({"idle"} \cup DOMAIN AfterLock)

\* C17: at most one thread is inside a lock-guarded section of the store, and
\* it is the holder of the lock: track_request and the locked parts of the three
\* readers exclude one another.
C17_MutualExclusion ==
    \A t, u \in Threads :
        InSection(t) => /\ lock = t
                        /\ (InSection(u) => u = t)

C17_WriterKeepsReaderOut ==
    \E t, u \in Threads :
        /\ pc[t] = "tr_time_wr"
        /\ pc[u] \in {"q_lock", "h_lock", "p_lock"}

\* the track_request calls for `key` that have been made but have not yet run
\* to the end of their locked section
Pending(key) ==
    {u \in Threads : arg[u].op = "track_request" /\ KeyOf(u) = key /\ pc[u] /= "exit"}
PendingErrors(key) == {u \in Pending(key) : arg[u].status_code > 399}

RECURSIVE PendingTime(_)
PendingTime(us) ==
    IF us = {} THEN 0
    ELSE LET u == CHOOSE x \in us : TRUE
         IN  arg[u].response_time + PendingTime(us \ {u})

\* what the completed calls for `key` add up to
Completed(key) ==
    [calls |-> hist[key].calls - Cardinality(Pending(key)),
     errors |-> hist[key].errors - Cardinality(PendingErrors(key)),
     time |-> hist[key].time - PendingTime(Pending(key))]

Abs(x) == IF x < 0 THEN -x ELSE x

\* C18: every per-key view made by get_endpoint_metrics while other threads
\* call track_request shows the completed calls for that key and only those:
\* its number of requests, its number of errors and its average (to the nearest
\* hundredth of a millisecond) are those of one and the same set of calls.
C18_ViewOfCompletedCalls ==
    \A t \in Threads :
        (pc[t] = "exit" /\ arg[t].op = "get_endpoint_metrics") =>
            IF arg[t].endpoint = None
            THEN \A k \in DOMAIN tmp[t].val :
                     LET view == tmp[t].val[k]
                         done == Completed(k)
                     IN  /\ view.total_requests = done.calls
                         /\ view.total_errors = done.errors
                         /\ 2 * Abs(view.avg_response_time_ms * done.calls
                                    - 100000 * done.time) <= done.calls
            ELSE tmp[t].val /= EmptyDict =>
                     LET done == Completed(arg[t].endpoint)
                     IN  /\ tmp[t].val.count = done.calls
                         /\ tmp[t].val.errors = done.errors
                         /\ tmp[t].val.total_time = done.time

C18_ReadBesideWaitingWriter ==
    \E t, u \in Threads :
        /\ pc[t] = "exit" /\ arg[t].op = "get_endpoint_metrics"
        /\ arg[t].endpoint = None
        /\ pc[u] = "tr_lock"
        /\ KeyOf(u) \in DOMAIN tmp[t].val
        /\ tmp[t].val[KeyOf(u)].total_errors = 1
        /\ tmp[t].val[KeyOf(u)].total_requests = 1

ReaderOps == {"get_endpoint_metrics", "get_health_metrics", "get_prometheus_metrics"}

\* C19: a step of get_endpoint_metrics, get_health_metrics or
\* get_prometheus_metrics leaves the store as it is (key set and every field of
\* every entry); the store changes only in steps of track_request.
C19_ReadersNeverMutate ==
    [][\A t \in Threads :
           (pc'[t] /= pc[t] /\ arg[t].op /= "track_request") => metrics' = metrics]_vars

C19_AbsentKeyRead ==
    \E t \in Threads :
        /\ pc[t] = "exit" /\ arg[t].op = "get_endpoint_metrics"
        /\ arg[t].endpoint /= None
        /\ metrics /= <<>>
        /\ ~HasKey(metrics, arg[t].endpoint)

\* C20: in every step the store keeps all its keys, and count, errors and
\* total_time of every key do not decrease; a key appears only in the step
\* of a track_request that reaches the store first for its (method, endpoint)
\* pair.
C20_StoreOnlyGrows ==
    [][/\ \A k \in KeySet(metrics) :
              /\ HasKey(metrics', k)
              /\ metrics'[IndexOf(metrics', k)].count >= Entry(k).count
              /\ metrics'[IndexOf(metrics', k)].errors >= Entry(k).errors
              /\ metrics'[IndexOf(metrics', k)].total_time >= Entry(k).total_time
       /\ \A k \in KeySet(metrics') \ KeySet(metrics) :
              \E t \in Threads :
                  /\ pc[t] = "tr_key" /\ pc'[t] /= pc[t]
                  /\ k = arg[t].method \o <<":">> \o arg[t].endpoint
                  /\ <<arg[t].method, arg[t].endpoint>> \notin RecordedPairs
                  /\ KeySet(metrics') = KeySet(metrics) \cup {k}]_vars

C20_TwoKeysGrown ==
    /\ Len(metrics) = 2
    /\ \A i \in DOMAIN metrics :
           /\ metrics[i].count = 1
           /\ metrics[i].total_time = 1
    /\ metrics[2].errors = 1

\* the verdict that belongs to an aggregate of n requests with e errors, n > 0
VerdictOf(e, n) == IF 20 * e < n THEN "healthy" ELSE "degraded"

\* C21: the service_status returned by get_health_metrics is determined by the
\* aggregate (total_requests, total_errors) of the calls made so far, whatever
\* their order and their keys: no earlier verdict is kept, so a store that was
\* "degraded" is "healthy" once its aggregate error rate is below 0.05.
C21_StatusHasNoMemory ==
    (DoneWith("get_health_metrics") /\ metrics /= <<>>) =>
        /\ Out.kind = "return"
        /\ Out.val.service_status = VerdictOf(TotalErrors, TotalCalls)

\* the first call ever was an error for POST, the only one (the store was
\* "degraded" from then on); twenty successful calls later it is "healthy"
C21_HealthyAgain ==
    /\ DoneWith("get_health_metrics")
    /\ HasKey(metrics, MakeKey(POST, <<"/", "h">>))
    /\ Entry(MakeKey(POST, <<"/", "h">>)).last_access = Some(1)
    /\ Entry(MakeKey(POST, <<"/", "h">>)).errors = 1
    /\ TotalErrors = 1
    /\ TotalCalls = 21
    /\ Out.val.service_status = "healthy"

\* the sum of `field` over the entries of the store with a key in `keys`
RECURSIVE SumOfField(_, _)
SumOfField(keys, field) ==
    IF keys = {} THEN 0
    ELSE LET k == CHOOSE x \in keys : TRUE
         IN  Entry(k)[field] + SumOfField(keys \ {k}, field)

\* C22: in the mapping returned by get_health_metrics, total_requests is the
\* sum of count and total_errors the sum of errors over all keys of the store,
\* endpoints_count is the number of distinct (method, endpoint) pairs recorded,
\* and total_errors <= total_requests.
C22_HealthAggregates ==
    (DoneWith("get_health_metrics") /\ Out.kind = "return") =>
        /\ Out.val.total_requests = SumOfField(KeySet(metrics), "count")
        /\ Out.val.total_errors = SumOfField(KeySet(metrics), "errors")
        /\ Out.val.endpoints_count = Cardinality(RecordedPairs)
        /\ Out.val.total_errors <= Out.val.total_requests

C22_TwoKeysSummed ==
    /\ DoneWith("get_health_metrics")
    /\ Out.kind = "return"
    /\ Out.val.endpoints_count = 2
    /\ Out.val.total_requests = 4
    /\ Out.val.total_errors = 2
    /\ \A i \in DOMAIN metrics : metrics[i].errors = 1

\* C23: the store has one entry per distinct (method, endpoint) pair recorded,
\* the entry of a pair counting the calls made with that pair and no others, and
\* the labels get_prometheus_metrics prints for the entry are the method and
\* the endpoint of the pair.
C23_OneBucketPerPair ==
    /\ Len(metrics) = Len(first)
    /\ \A j \in DOMAIN first :
           /\ j \in DOMAIN metrics
           /\ metrics[j].count = Cardinality({n \in DOMAIN log : log[n] = first[j]})
    /\ DoneWith("get_prometheus_metrics") =>
           /\ Out.kind = "return"
           /\ \A j \in DOMAIN first : Out.val[3 + 9 * (j - 1) + 3][2] = first[j]

\* count and errors of a key, 0 while the key has no entry
CountOf(m, key) == IF HasKey(m, key) THEN m[IndexOf(m, key)].count ELSE 0
ErrorsOf(m, key) == IF HasKey(m, key) THEN m[IndexOf(m, key)].errors ELSE 0

\* the step in which the single caller's call `op` runs from entry to outcome
StepOf(op) == pc[Caller] = "idle" /\ pc'[Caller] = "done" /\ arg'[Caller].op = op

\* the key of the request the wrapper has just served
WrappedKey(a) ==
    a.method \o <<":">> \o (IF a.endpoint = None THEN <<"unknown">> ELSE a.endpoint)

\* C24: when the wrapped function raises, the wrapper calls track_request
\* once, with status 500 (count and errors of the key grow by one), and raises
\* the same exception; when the function returns, the wrapper returns its
\* result unchanged.
C24_WrapperPassesOutcomeOn ==
    [][StepOf("wrapper") =>
           LET f == tmp'[Caller]
               out == ret'[Caller][1]
               key == WrappedKey(arg'[Caller])
           IN  /\ out.kind = f.kind
               /\ out.val = f.val
               /\ f.kind = "raise" =>
                      /\ Len(log') = 1
                      /\ log'[1].status_code = 500
                      /\ CountOf(metrics', key) = CountOf(metrics, key) + 1
                      /\ ErrorsOf(metrics', key) = ErrorsOf(metrics, key) + 1]_vars

\* C25: for a function that returns, the status code the wrapper hands to
\* track_request is the result's status_code attribute if it has one, else the
\* second item of a tuple, else 200; so a (body, 500) result adds an error to
\* the key and a plain jsonify response adds none.
C25_StatusReadOffResult ==
    [][(StepOf("wrapper") /\ tmp'[Caller].kind = "return") =>
           LET result == tmp'[Caller].val
               key == WrappedKey(arg'[Caller])
               grown == ErrorsOf(metrics', key) - ErrorsOf(metrics, key)
           IN  /\ Len(log') >= 1
               /\ result.type = "Response" =>
                      /\ log'[1].status_code = result.status_code
                      /\ result.status_code = 200 => grown = 0
               /\ result.type = "tuple" =>
                      /\ log'[1].status_code = result.status_code
                      /\ result.status_code = 500 => grown = 1
               /\ result.type \notin {"Response", "tuple"} =>
                      /\ log'[1].status_code = 200
                      /\ grown = 0]_vars

C25_TupleCountedAsError ==
    /\ DoneWith("wrapper")
    /\ tmp[Caller] = Return(BodyAndStatus(500))
    /\ log = <<TrackArgs(<<"view">>, POST, 500, 1)>>
    /\ Len(metrics) = 1
    /\ metrics[1].count = 2
    /\ metrics[1].errors = 1

\* a thread that has started a call and has not yet returned from it
Started(t) == pc[t] /= "idle"

\* no locked section acquires the lock again
NoSecondAcquire ==
    [][\A t \in Threads : InSection(t) => pc'[t] \notin DOMAIN AfterLock]_vars

\* the lock is held by a thread inside a section and by nobody else
HeldInsideOnly ==
    [](\A t \in Threads : lock = t => InSection(t))

\* C26 as stated: under weakly fair scheduling of the threads every started
\* call eventually returns or raises, the lock is free once the caller is out
\* of its section, and no section acquires the lock a second time.
C26_EveryStartedCallReturns ==
    /\ NoSecondAcquire
    /\ HeldInsideOnly
    /\ \A t \in Threads : Started(t) ~> ~Started(t)

\* C26 amended: under weakly fair scheduling a thread inside a locked section
\* always leaves it, on return and on raise, and then no longer holds the lock;
\* no section acquires the lock a second time; and every started call returns
\* or raises if, in addition, a thread that can take the lock again and again
\* eventually takes it (strong fairness of Lock.acquire).
C26_NoDeadlock ==
    /\ NoSecondAcquire
    /\ HeldInsideOnly
    /\ \A t \in Threads : InSection(t) ~> ~Started(t)
    /\ (\A t \in Threads : SF_Position(Acquire(t)))
           => \A t \in Threads : Started(t) ~> ~Started(t)

\* the body of a locked section raises while another thread waits for the lock
C26_RaiseInsideSection ==
    \E t, u \in Threads :
        /\ arg[t].op = "get_health_metrics"
        /\ pc[t] = "exit"
        /\ lock = t
        /\ tmp[t].kind = "raise"
        /\ pc[u] \in DOMAIN AfterLock

\* a reader inside its loop, and a reader holding its finished result
Scanning(t) == pc[t] = "scan"
Holding(t, op) == pc[t] = "exit" /\ arg[t].op = op

\* C27: a multi-key read sees one instant.  While a reader walks the store,
\* the entries it has read so far are the entries the store holds now, each
\* with exactly the completed track_request calls of its key; and the finished
\* result of an unfiltered get_endpoint_metrics, of get_health_metrics and of
\* get_prometheus_metrics is the one computed from the whole store as it is
\* now, so no result mixes states from before and after a track_request.
C27_ReadSeesOneInstant ==
    \A t \in Threads :
        /\ Scanning(t) =>
               /\ Len(tmp[t].seen) <= Len(metrics)
               /\ \A i \in DOMAIN tmp[t].seen :
                      /\ tmp[t].seen[i] = metrics[i]
                      /\ metrics[i].count = Completed(metrics[i].key).calls
                      /\ metrics[i].errors = Completed(metrics[i].key).errors
                      /\ metrics[i].total_time = Completed(metrics[i].key).time
        /\ Holding(t, "get_endpoint_metrics") =>
               tmp[t] = Return(EndpointMetrics(metrics, None))
        /\ Holding(t, "get_health_metrics") =>
               tmp[t] = HealthMetrics(metrics, clock)
        /\ Holding(t, "get_prometheus_metrics") =>
               \E c \in 0..clock : tmp[t] = PrometheusText(UptimeLines(c), metrics)

\* a reader has read the first of two entries while a track_request for the
\* other key waits for the lock
C27_WriterWaitsForScan ==
    \E t, u \in Threads :
        /\ Scanning(t)
        /\ Len(metrics) = 2
        /\ Len(tmp[t].seen) = 1
        /\ pc[u] = "tr_lock"
        /\ KeyOf(u) = metrics[2].key

\* a thread inside the locked section of one of the three readers
Reading(t) == InSection(t) /\ arg[t].op \in ReaderOps

\* the entry has been through the updates of a track_request
Populated(metric) ==
    /\ metric.count >= 1
    /\ metric.last_access /= None
    /\ metric.response_times /= <<>>

\* C28: in every state a reader can observe (a reader is inside its locked
\* section, or the lock is free) every entry of the store has count >= 1, a
\* last_access that is not None and a non-empty window: the entry made by
\* self.metrics[key] is filled in before the lock is given up.
C28_EntriesPopulated ==
    ((\E t \in Threads : Reading(t)) \/ lock = NoThread)
        => \A i \in DOMAIN metrics : Populated(metrics[i])

\* a reader is inside its section over a populated store while a track_request
\* for a key the store does not hold yet waits for the lock
C28_NewKeyWaitsForReader ==
    \E t, u \in Threads :
        /\ Reading(t)
        /\ pc[t] = "q_body"
        /\ metrics /= <<>>
        /\ pc[u] = "tr_lock"
        /\ ~HasKey(metrics, KeyOf(u))

\* the entry of `key` in store m, as self.metrics[key] would give it
EntryIn(m, key) == IF HasKey(m, key) THEN m[IndexOf(m, key)] ELSE DefaultEntry(key)

\* C29: a track_request for key K (the key whose history of calls grows in the
\* step) changes only K's entry: every other key keeps its whole entry (count,
\* total_time, errors, last_access, window), no other key appears or goes, and
\* K's count grows by 1, its total_time by the elapsed value handed over and
\* its errors by 1 if the status is 400 or more and by 0 otherwise.
C29_TrackChangesOnlyItsKey ==
    [][\A k \in Keys :
          hist'[k] /= hist[k] =>
              /\ KeySet(metrics') = KeySet(metrics) \cup {k}
              /\ EntryIn(metrics', k).count = EntryIn(metrics, k).count + 1
              /\ EntryIn(metrics', k).total_time =
                     EntryIn(metrics, k).total_time + (hist'[k].time - hist[k].time)
              /\ EntryIn(metrics', k).errors =
                     EntryIn(metrics, k).errors + (hist'[k].errors - hist[k].errors)
              /\ \A o \in KeySet(metrics) \ {k} :
                     EntryIn(metrics', o) = EntryIn(metrics, o)]_vars

\* two requests for the second key (one with status 400, one with 399) were
\* recorded after the only request for the first key, whose entry still is as
\* that request left it
C29_OtherKeyUntouched ==
    /\ Len(metrics) = 2
    /\ metrics[1].count = 1
    /\ metrics[1].last_access = Some(1)
    /\ metrics[1].response_times = <<1>>
    /\ metrics[2].count = 2
    /\ metrics[2].errors = 1
    /\ metrics[2].last_access = Some(3)

\* C30: track_request is all-or-nothing.  A call of track_request that raises
\* leaves the store exactly as it was before the call, and one call of the
\* wrapper, whatever the wrapped function hands back, makes the count of its
\* key grow by exactly one.
C30_TrackRequestAllOrNothing ==
    [][/\ (StepOf("track_request") /\ ret'[Caller][1].kind = "raise")
              => metrics' = metrics
       /\ StepOf("wrapper")
              => CountOf(metrics', WrappedKey(arg'[Caller])) =
                     CountOf(metrics, WrappedKey(arg'[Caller])) + 1]_vars

====
